---------------------------- MODULE Spec2Model ----------------------------
(***************************************************************************)
(* A model of src/wrapper.rs: the QueryWrapper SQL builder, its two        *)
(* renderers (build_sql, build_count_sql), the Page container and the      *)
(* two-round-trip page() operation.                                         *)
(*                                                                         *)
(* Text (Rust String / &str) is a sequence of one-character strings, so    *)
(* that push_str, join, to_uppercase and contains are computed character   *)
(* by character.  Option<T> is <<>> for None and <<v>> for Some(v).        *)
(* u64 is the integers 0..U64Max; U64Max stands for u64::MAX, scaled down  *)
(* so that the arithmetic of Page::new and page() can be enumerated.       *)
(***************************************************************************)
EXTENDS Integers, Sequences, FiniteSets, TLC

VARIABLES
    w,                \* the caller's QueryWrapper
    calls,            \* the builder calls made on w so far, in call order
    overflow_checks,  \* build profile: TRUE = overflow panics, FALSE = wraps
    pc,               \* position of page(): "idle", "count", "data", "done"
    args,             \* the arguments of the running page() / Page::new call
    total,            \* page(): the decoded count, Option<u64>
    wrapper,          \* page(): the local clone, Option<QueryWrapper>
    rb_calls,         \* SQL texts handed to the database client by page()
    result            \* what the last page() / Page::new call produced

vars == <<w, calls, overflow_checks, pc, args, total, wrapper, rb_calls, result>>

----------------------------------------------------------------------------
(* Bounds of the model. *)

MaxCalls == 3

MaxPageCalls == 2

U64Max == 15

----------------------------------------------------------------------------
(* Option<T> *)

None == <<>>

Some(v) == <<v>>

----------------------------------------------------------------------------
(* Text primitives of the Rust standard library used by the source. *)

Digit == <<"0","1","2","3","4","5","6","7","8","9">>

\* char::to_uppercase on the ASCII letters; every other character is kept.
to_upper_char(c) ==
    CASE c = "a" -> "A" [] c = "b" -> "B" [] c = "c" -> "C" [] c = "d" -> "D"
      [] c = "e" -> "E" [] c = "f" -> "F" [] c = "g" -> "G" [] c = "h" -> "H"
      [] c = "i" -> "I" [] c = "j" -> "J" [] c = "k" -> "K" [] c = "l" -> "L"
      [] c = "m" -> "M" [] c = "n" -> "N" [] c = "o" -> "O" [] c = "p" -> "P"
      [] c = "q" -> "Q" [] c = "r" -> "R" [] c = "s" -> "S" [] c = "t" -> "T"
      [] c = "u" -> "U" [] c = "v" -> "V" [] c = "w" -> "W" [] c = "x" -> "X"
      [] c = "y" -> "Y" [] c = "z" -> "Z" [] OTHER -> c

\* The characters of the texts of this model.
Alphabet ==
    {"a","b","c","d","e","f","g","h","i","j","k","l","m",
     "n","o","p","q","r","s","t","u","v","w","x","y","z",
     "A","B","C","D","E","F","G","H","I","J","K","L","M",
     "N","O","P","Q","R","S","T","U","V","W","X","Y","Z",
     "0","1","2","3","4","5","6","7","8","9",
     " ", "*", "=", "!", "<", ">", "'", "%", ",", ".", "(", ")", "_"}

upper_of == [c \in Alphabet |-> to_upper_char(c)]

\* str::to_uppercase
to_uppercase(s) == [i \in 1..Len(s) |-> upper_of[s[i]]]

\* str::contains(&str)
contains(s, pat) ==
    \E i \in 1..(Len(s) - Len(pat) + 1) : SubSeq(s, i, i + Len(pat) - 1) = pat

\* [String]::join(sep)
RECURSIVE join(_, _)
join(v, sep) ==
    IF v = <<>> THEN <<>>
    ELSE IF Len(v) = 1 THEN v[1]
    ELSE v[1] \o sep \o join(Tail(v), sep)

\* <u64 as Display>::fmt, reached through ToString and format!("{}")
RECURSIVE to_string(_)
to_string(n) ==
    IF n < 10 THEN <<Digit[n + 1]>>
    ELSE to_string(n \div 10) \o <<Digit[(n % 10) + 1]>>

----------------------------------------------------------------------------
(* QueryWrapper: the builder methods, as functions of the builder value. *)

new ==
    [where_conditions |-> <<>>, order_by |-> <<>>, select_columns |-> <<>>,
     limit |-> None, offset |-> None, custom_sql |-> None,
     join_conditions |-> <<>>]

\* eq assigning the predicate list instead of pushing onto it.
eq_assign(self, column, value) ==
    [self EXCEPT !.where_conditions =
        <<column \o <<" ", "=", " ", "'">> \o to_string(value) \o <<"'">>>>]

eq(self, column, value) ==
    [self EXCEPT !.where_conditions =
        Append(@, column \o <<" ", "=", " ", "'">> \o to_string(value) \o <<"'">>)]

ne(self, column, value) ==
    [self EXCEPT !.where_conditions =
        Append(@, column \o <<" ", "!", "=", " ", "'">> \o to_string(value) \o <<"'">>)]

gt(self, column, value) ==
    [self EXCEPT !.where_conditions =
        Append(@, column \o <<" ", ">", " ", "'">> \o to_string(value) \o <<"'">>)]

lt(self, column, value) ==
    [self EXCEPT !.where_conditions =
        Append(@, column \o <<" ", "<", " ", "'">> \o to_string(value) \o <<"'">>)]

like(self, column, value) ==
    [self EXCEPT !.where_conditions =
        Append(@, column \o <<" ", "L", "I", "K", "E", " ", "'", "%">> \o value \o <<"%", "'">>)]

select(self, columns) ==
    [self EXCEPT !.select_columns = columns]

order_by(self, column, asc) ==
    [self EXCEPT !.order_by =
        Append(@, column \o <<" ">> \o (IF asc THEN <<"A", "S", "C">> ELSE <<"D", "E", "S", "C">>))]

limit(self, n) ==
    [self EXCEPT !.limit = Some(n)]

offset(self, n) ==
    [self EXCEPT !.offset = Some(n)]

custom_sql(self, sql) ==
    [self EXCEPT !.custom_sql = Some(sql)]

inner_join(self, table, on_condition) ==
    [self EXCEPT !.join_conditions =
        Append(@, <<"I", "N", "N", "E", "R", " ", "J", "O", "I", "N", " ">> \o table \o <<" ", "O", "N", " ">> \o on_condition)]

left_join(self, table, on_condition) ==
    [self EXCEPT !.join_conditions =
        Append(@, <<"L", "E", "F", "T", " ", "J", "O", "I", "N", " ">> \o table \o <<" ", "O", "N", " ">> \o on_condition)]

right_join(self, table, on_condition) ==
    [self EXCEPT !.join_conditions =
        Append(@, <<"R", "I", "G", "H", "T", " ", "J", "O", "I", "N", " ">> \o table \o <<" ", "O", "N", " ">> \o on_condition)]

----------------------------------------------------------------------------
(* The renderers. *)

\* The merge of the accumulated predicates into a custom SQL text
\* (build_sql lines 161-168, build_count_sql lines 282-289).
merge_where(self, sql) ==
    IF self.where_conditions # <<>>
    THEN sql
         \o (IF ~contains(to_uppercase(sql), <<"W", "H", "E", "R", "E">>)
             THEN <<" ", "W", "H", "E", "R", "E", " ">> ELSE <<" ", "A", "N", "D", " ">>)
         \o join(self.where_conditions, <<" ", "A", "N", "D", " ">>)
    ELSE sql

\* push_tail with OFFSET pushed before LIMIT.
push_tail_offset_first(self, sql) ==
    LET s1 == IF self.order_by # <<>>
              THEN sql \o <<" ", "O", "R", "D", "E", "R", " ", "B", "Y", " ">> \o join(self.order_by, <<",", " ">>)
              ELSE sql
        s2 == IF self.offset # None
              THEN s1 \o <<" ", "O", "F", "F", "S", "E", "T", " ">> \o to_string(self.offset[1])
              ELSE s1
    IN  IF self.limit # None
        THEN s2 \o <<" ", "L", "I", "M", "I", "T", " ">> \o to_string(self.limit[1])
        ELSE s2

\* ORDER BY, LIMIT, OFFSET appended in that order (lines 171-182, 207-218).
push_tail(self, sql) ==
    LET s1 == IF self.order_by # <<>>
              THEN sql \o <<" ", "O", "R", "D", "E", "R", " ", "B", "Y", " ">> \o join(self.order_by, <<",", " ">>)
              ELSE sql
        s2 == IF self.limit # None
              THEN s1 \o <<" ", "L", "I", "M", "I", "T", " ">> \o to_string(self.limit[1])
              ELSE s1
    IN  IF self.offset # None
        THEN s2 \o <<" ", "O", "F", "F", "S", "E", "T", " ">> \o to_string(self.offset[1])
        ELSE s2

\* The generated SELECT ... FROM ... JOIN ... WHERE ... (lines 188-205).
generated_select(self, table_name) ==
    LET sel == IF self.select_columns = <<>>
               THEN <<"*">>
               ELSE join(self.select_columns, <<",", " ">>)
        s0  == <<"S", "E", "L", "E", "C", "T", " ">> \o sel \o <<" ", "F", "R", "O", "M", " ">> \o table_name
        s1  == IF self.join_conditions # <<>>
               THEN s0 \o <<" ">> \o join(self.join_conditions, <<" ">>)
               ELSE s0
    IN  IF self.where_conditions # <<>>
        THEN s1 \o <<" ", "W", "H", "E", "R", "E", " ">> \o join(self.where_conditions, <<" ", "A", "N", "D", " ">>)
        ELSE s1

\* build_sql pushing the join clauses on the custom-SQL path too.
build_sql_custom_joins(self, table_name) ==
    IF self.custom_sql # None
    THEN push_tail(self,
            merge_where(self,
                IF self.join_conditions # <<>>
                THEN self.custom_sql[1] \o <<" ">>
                        \o join(self.join_conditions, <<" ">>)
                ELSE self.custom_sql[1]))
    ELSE push_tail(self, generated_select(self, table_name))

build_sql(self, table_name) ==
    IF self.custom_sql # None
    THEN push_tail(self, merge_where(self, self.custom_sql[1]))
    ELSE push_tail(self, generated_select(self, table_name))

\* build_count_sql wrapping the whole of build_sql as the subquery.
build_count_sql_wraps_build_sql(self, table_name) ==
    <<"S", "E", "L", "E", "C", "T", " ", "C", "O", "U", "N", "T", "(", "*", ")", " ", "F", "R", "O", "M", " ", "(">> \o build_sql(self, table_name) \o <<")", " ", "a", "s", " ", "t">>

\* build_count_sql looking for "WHERE" in the custom SQL as written,
\* without to_uppercase.
build_count_sql_case_sensitive(self, table_name) ==
    IF self.custom_sql # None
    THEN <<"S", "E", "L", "E", "C", "T", " ", "C", "O", "U", "N", "T", "(", "*", ")", " ", "F", "R", "O", "M", " ", "(">>
         \o (IF self.where_conditions # <<>>
             THEN self.custom_sql[1]
                  \o (IF ~contains(self.custom_sql[1], <<"W", "H", "E", "R", "E">>)
                      THEN <<" ", "W", "H", "E", "R", "E", " ">> ELSE <<" ", "A", "N", "D", " ">>)
                  \o join(self.where_conditions, <<" ", "A", "N", "D", " ">>)
             ELSE self.custom_sql[1])
         \o <<")", " ", "a", "s", " ", "t">>
    ELSE LET s0 == <<"S", "E", "L", "E", "C", "T", " ", "C", "O", "U", "N", "T", "(", "*", ")", " ", "F", "R", "O", "M", " ">> \o table_name
             s1 == IF self.join_conditions # <<>>
                   THEN s0 \o <<" ">> \o join(self.join_conditions, <<" ">>)
                   ELSE s0
         IN  IF self.where_conditions # <<>>
             THEN s1 \o <<" ", "W", "H", "E", "R", "E", " ">> \o join(self.where_conditions, <<" ", "A", "N", "D", " ">>)
             ELSE s1

build_count_sql(self, table_name) ==
    IF self.custom_sql # None
    THEN <<"S", "E", "L", "E", "C", "T", " ", "C", "O", "U", "N", "T", "(", "*", ")", " ", "F", "R", "O", "M", " ", "(">>
         \o merge_where(self, self.custom_sql[1]) \o <<")", " ", "a", "s", " ", "t">>
    ELSE LET s0 == <<"S", "E", "L", "E", "C", "T", " ", "C", "O", "U", "N", "T", "(", "*", ")", " ", "F", "R", "O", "M", " ">> \o table_name
             s1 == IF self.join_conditions # <<>>
                   THEN s0 \o <<" ">> \o join(self.join_conditions, <<" ">>)
                   ELSE s0
         IN  IF self.where_conditions # <<>>
             THEN s1 \o <<" ", "W", "H", "E", "R", "E", " ">> \o join(self.where_conditions, <<" ", "A", "N", "D", " ">>)
             ELSE s1

----------------------------------------------------------------------------
(* u64 arithmetic, Page::new and the steps of page(). *)

\* The result of a u64 +, - or * whose exact value is `exact`: None is the
\* panic of a build with overflow checks, otherwise the value wraps.
u64(exact) ==
    IF exact \in 0..U64Max THEN Some(exact)
    ELSE IF overflow_checks THEN None
    ELSE Some(exact % (U64Max + 1))

Panic(at) == [kind |-> "panic", at |-> at]

Err(e) == [kind |-> "Err", error |-> e]

\* Page::new dividing total + page_size, the "- 1" forgotten.
Page_new_no_minus_one(records, total_, page_no, page_size) ==
    LET sum == u64(total_ + page_size)
    IN  IF sum = None \/ page_size = 0
        THEN Panic("Page::new")
        ELSE LET pages == sum[1] \div page_size
             IN  [kind |-> "Page", records |-> records, total |-> total_,
                  page_no |-> page_no, page_size |-> page_size,
                  pages |-> pages, has_next |-> page_no < pages]

\* Page::new; a division by zero panics in every build.
Page_new(records, total_, page_no, page_size) ==
    LET sum   == u64(total_ + page_size)
        minus == IF sum = None THEN None ELSE u64(sum[1] - 1)
    IN  IF minus = None \/ page_size = 0
        THEN Panic("Page::new")
        ELSE LET pages == minus[1] \div page_size
             IN  [kind |-> "Page", records |-> records, total |-> total_,
                  page_no |-> page_no, page_size |-> page_size,
                  pages |-> pages, has_next |-> page_no < pages]

\* let offset = (page_no - 1) * page_size;
page_offset(page_no, page_size) ==
    LET d == u64(page_no - 1)
    IN  IF d = None THEN None ELSE u64(d[1] * page_size)

\* page() setting limit and offset on the caller's builder, no clone.
paging_wrapper_no_clone(self, page_size, off) ==
    [self |-> offset(limit(self, page_size), off),
     wrapper |-> offset(limit(self, page_size), off)]

\* let mut wrapper = self.clone(); wrapper.limit(..); wrapper.offset(..);
\* self: the caller's builder afterwards, wrapper: the local clone.
paging_wrapper(self, page_size, off) ==
    [self |-> self, wrapper |-> offset(limit(self, page_size), off)]

\* page() from the reply to the count query up to its next await or return.
\* self: the caller's builder afterwards; result: Some(..) when page() is over;
\* sql: Some(data query) when one is issued.
page_after_count(self, a, reply) ==
    IF ~reply.ok
    THEN [self |-> self, total |-> None, wrapper |-> None, sql |-> None,
          result |-> Some(Err(reply.error))]
    ELSE IF reply.value > 0
    THEN LET off == page_offset(a.page_no, a.page_size)
         IN  IF off = None
             THEN [self |-> self, total |-> Some(reply.value),
                   wrapper |-> None, sql |-> None,
                   result |-> Some(Panic("page"))]
             ELSE LET p == paging_wrapper(self, a.page_size, off[1])
                  IN  [self |-> p.self, total |-> Some(reply.value),
                       wrapper |-> Some(p.wrapper),
                       sql |-> Some(build_sql(p.wrapper, a.table_name)),
                       result |-> None]
    ELSE [self |-> self, total |-> Some(reply.value), wrapper |-> None,
          sql |-> None,
          result |-> Some(Page_new(<<>>, 0, a.page_no, a.page_size))]

\* page() answering a failed data query with an empty page.
page_after_data_swallows_error(a, total_, reply) ==
    IF ~reply.ok
    THEN Page_new(<<>>, total_, a.page_no, a.page_size)
    ELSE Page_new(reply.value, total_, a.page_no, a.page_size)

\* page() from the reply to the data query to its return.
page_after_data(a, total_, reply) ==
    IF ~reply.ok
    THEN Err(reply.error)
    ELSE Page_new(reply.value, total_, a.page_no, a.page_size)

----------------------------------------------------------------------------
(* Inputs. *)

Columns == {<<"i", "d">>}

Values == {7}

LikeValues == {<<"b", "o">>}

ColumnLists == {<<<<"a">>>>, <<<<"a">>, <<"b">>>>}

OrderColumns == {<<"x">>}

Limits == {5, 10}

Offsets == {0, 12}

CustomSqls == {<<"s", "e", "l", "e", "c", "t", " ", "a", " ", "f", "r", "o", "m", " ", "t">>, <<"s", "e", "l", "e", "c", "t", " ", "a", " ", "f", "r", "o", "m", " ", "t", " ", "W", "h", "e", "r", "e", " ", "b", "=", "1">>}

JoinTables == {<<"u">>}

OnConditions == {<<"u", ".", "k", " ", "=", " ", "t", ".", "k">>}

TableNames == {<<"t">>, <<"m", "e", "m", "b", "e", "r">>}

PageTables == {<<"m", "e", "m", "b", "e", "r">>}

PageNos == {0, 1, 3}

PageSizes == {0, 2, 10}

Totals == {0, 5, U64Max}

RecordLists == {<<>>, <<"r1", "r2">>}

Errors == {"connection", "decode"}

CountReplies ==
    [ok : {TRUE}, value : Totals] \cup [ok : {FALSE}, error : Errors]

DataReplies ==
    [ok : {TRUE}, value : RecordLists] \cup [ok : {FALSE}, error : Errors]

----------------------------------------------------------------------------
(* The state machine: builder calls. *)

\* The state after QueryWrapper::new(), before any page() call.
Fresh ==
    /\ w = new
    /\ calls = <<>>
    /\ pc = "idle"
    /\ args = None
    /\ total = None
    /\ wrapper = None
    /\ rb_calls = <<>>
    /\ result = None

\* The builder alone: no arithmetic runs, the build profile is immaterial.
Init == Fresh /\ overflow_checks = TRUE

PageVars == <<overflow_checks, pc, args, total, wrapper, rb_calls, result>>

\* A builder call is possible while no page() call holds the shared borrow.
CanCall(n) ==
    /\ pc = "idle"
    /\ Len(calls) < n

CallEq(n) ==
    /\ CanCall(n)
    /\ \E c \in Columns, v \in Values :
          /\ w' = eq(w, c, v)
          /\ calls' = Append(calls, [op |-> "eq", column |-> c, value |-> v])
    /\ UNCHANGED PageVars

CallNe(n) ==
    /\ CanCall(n)
    /\ \E c \in Columns, v \in Values :
          /\ w' = ne(w, c, v)
          /\ calls' = Append(calls, [op |-> "ne", column |-> c, value |-> v])
    /\ UNCHANGED PageVars

CallGt(n) ==
    /\ CanCall(n)
    /\ \E c \in Columns, v \in Values :
          /\ w' = gt(w, c, v)
          /\ calls' = Append(calls, [op |-> "gt", column |-> c, value |-> v])
    /\ UNCHANGED PageVars

CallLt(n) ==
    /\ CanCall(n)
    /\ \E c \in Columns, v \in Values :
          /\ w' = lt(w, c, v)
          /\ calls' = Append(calls, [op |-> "lt", column |-> c, value |-> v])
    /\ UNCHANGED PageVars

CallLike(n) ==
    /\ CanCall(n)
    /\ \E c \in Columns, v \in LikeValues :
          /\ w' = like(w, c, v)
          /\ calls' = Append(calls, [op |-> "like", column |-> c, value |-> v])
    /\ UNCHANGED PageVars

CallSelect(n) ==
    /\ CanCall(n)
    /\ \E cs \in ColumnLists :
          /\ w' = select(w, cs)
          /\ calls' = Append(calls, [op |-> "select", columns |-> cs])
    /\ UNCHANGED PageVars

CallOrderBy(n) ==
    /\ CanCall(n)
    /\ \E c \in OrderColumns, asc \in BOOLEAN :
          /\ w' = order_by(w, c, asc)
          /\ calls' = Append(calls, [op |-> "order_by", column |-> c, asc |-> asc])
    /\ UNCHANGED PageVars

CallLimit(n) ==
    /\ CanCall(n)
    /\ \E k \in Limits :
          /\ w' = limit(w, k)
          /\ calls' = Append(calls, [op |-> "limit", n |-> k])
    /\ UNCHANGED PageVars

CallOffset(n) ==
    /\ CanCall(n)
    /\ \E k \in Offsets :
          /\ w' = offset(w, k)
          /\ calls' = Append(calls, [op |-> "offset", n |-> k])
    /\ UNCHANGED PageVars

CallCustomSql(n) ==
    /\ CanCall(n)
    /\ \E s \in CustomSqls :
          /\ w' = custom_sql(w, s)
          /\ calls' = Append(calls, [op |-> "custom_sql", sql |-> s])
    /\ UNCHANGED PageVars

CallInnerJoin(n) ==
    /\ CanCall(n)
    /\ \E t \in JoinTables, c \in OnConditions :
          /\ w' = inner_join(w, t, c)
          /\ calls' = Append(calls, [op |-> "inner_join", table |-> t, on |-> c])
    /\ UNCHANGED PageVars

CallLeftJoin(n) ==
    /\ CanCall(n)
    /\ \E t \in JoinTables, c \in OnConditions :
          /\ w' = left_join(w, t, c)
          /\ calls' = Append(calls, [op |-> "left_join", table |-> t, on |-> c])
    /\ UNCHANGED PageVars

CallRightJoin(n) ==
    /\ CanCall(n)
    /\ \E t \in JoinTables, c \in OnConditions :
          /\ w' = right_join(w, t, c)
          /\ calls' = Append(calls, [op |-> "right_join", table |-> t, on |-> c])
    /\ UNCHANGED PageVars

Next ==
    \/ CallEq(MaxCalls)
    \/ CallNe(MaxCalls)
    \/ CallGt(MaxCalls)
    \/ CallLt(MaxCalls)
    \/ CallLike(MaxCalls)
    \/ CallSelect(MaxCalls)
    \/ CallOrderBy(MaxCalls)
    \/ CallLimit(MaxCalls)
    \/ CallOffset(MaxCalls)
    \/ CallCustomSql(MaxCalls)
    \/ CallInnerJoin(MaxCalls)
    \/ CallLeftJoin(MaxCalls)
    \/ CallRightJoin(MaxCalls)

Spec == Init /\ [][Next]_vars

----------------------------------------------------------------------------
(* The state machine: page(). *)

InitPage == Fresh /\ overflow_checks \in BOOLEAN

\* page() is called: the count query is rendered and handed to the client.
PageCall ==
    /\ pc = "idle"
    /\ \E t \in PageTables, pn \in PageNos, ps \in PageSizes :
          /\ args' = Some([fn |-> "page", table_name |-> t,
                           page_no |-> pn, page_size |-> ps])
          /\ rb_calls' = <<[sql |-> build_count_sql(w, t), reply |-> None]>>
    /\ pc' = "count"
    /\ total' = None
    /\ wrapper' = None
    /\ result' = None
    /\ UNCHANGED <<w, calls, overflow_checks>>

\* The client answers the count query.
CountReply ==
    /\ pc = "count"
    /\ \E reply \in CountReplies :
          LET r == page_after_count(w, args[1], reply)
          IN  /\ w' = r.self
              /\ total' = r.total
              /\ wrapper' = r.wrapper
              /\ result' = r.result
              /\ pc' = IF r.result # None THEN "done" ELSE "data"
              /\ rb_calls' =
                    <<[rb_calls[1] EXCEPT !.reply = Some(reply)]>>
                    \o (IF r.sql # None
                        THEN <<[sql |-> r.sql[1], reply |-> None]>>
                        ELSE <<>>)
    /\ UNCHANGED <<calls, overflow_checks, args>>

\* The client answers the data query.
DataReply ==
    /\ pc = "data"
    /\ \E reply \in DataReplies :
          /\ result' = Some(page_after_data(args[1], total[1], reply))
          /\ rb_calls' = [rb_calls EXCEPT ![2].reply = Some(reply)]
    /\ pc' = "done"
    /\ UNCHANGED <<w, calls, overflow_checks, args, total, wrapper>>

\* The caller takes what page() returned; the builder is free again.
PageReturned ==
    /\ pc = "done"
    /\ pc' = "idle"
    /\ args' = None
    /\ total' = None
    /\ wrapper' = None
    /\ rb_calls' = <<>>
    /\ result' = None
    /\ UNCHANGED <<w, calls, overflow_checks>>

\* page() on builders made of the calls that feed the clauses the count
\* query and the data query treat differently, and of custom_sql.
NextPage ==
    \/ CallEq(MaxPageCalls)
    \/ CallOrderBy(MaxPageCalls)
    \/ CallLimit(MaxPageCalls)
    \/ CallOffset(MaxPageCalls)
    \/ CallCustomSql(MaxPageCalls)
    \/ PageCall
    \/ CountReply
    \/ DataReply
    \/ PageReturned

SpecPage == InitPage /\ [][NextPage]_vars

----------------------------------------------------------------------------
(* The state machine: Page::new called on its own. *)

CallPageNew ==
    /\ pc = "idle"
    /\ \E rs \in RecordLists, t \in Totals, pn \in PageNos, ps \in PageSizes :
          /\ args' = Some([fn |-> "Page::new", records |-> rs, total |-> t,
                           page_no |-> pn, page_size |-> ps])
          /\ result' = Some(Page_new(rs, t, pn, ps))
    /\ pc' = "done"
    /\ UNCHANGED <<w, calls, overflow_checks, total, wrapper, rb_calls>>

NextPageNew ==
    \/ CallPageNew
    \/ PageReturned

SpecPageNew == InitPage /\ [][NextPageNew]_vars

----------------------------------------------------------------------------
(* What the call history says should be rendered.  These definitions read  *)
(* only the history `calls`, never the builder's fields.                    *)

EndsWith(s, suf) ==
    Len(s) >= Len(suf) /\ SubSeq(s, Len(s) - Len(suf) + 1, Len(s)) = suf

Occurrences(s, pat) ==
    Cardinality({i \in 1..(Len(s) - Len(pat) + 1) :
                    SubSeq(s, i, i + Len(pat) - 1) = pat})

CallsOf(ops) == SelectSeq(calls, LAMBDA c : c.op \in ops)

PredicateOps == {"eq", "ne", "gt", "lt", "like"}

\* The predicate a call is documented to add.
PredicateText(c) ==
    CASE c.op = "eq"   -> c.column \o <<" ", "=", " ", "'">> \o to_string(c.value) \o <<"'">>
      [] c.op = "ne"   -> c.column \o <<" ", "!", "=", " ", "'">> \o to_string(c.value) \o <<"'">>
      [] c.op = "gt"   -> c.column \o <<" ", ">", " ", "'">> \o to_string(c.value) \o <<"'">>
      [] c.op = "lt"   -> c.column \o <<" ", "<", " ", "'">> \o to_string(c.value) \o <<"'">>
      [] c.op = "like" -> c.column \o <<" ", "L", "I", "K", "E", " ", "'", "%">> \o c.value \o <<"%", "'">>

\* The predicates of the eq/ne/gt/lt/like calls, in call order.
CalledPredicates ==
    LET ps == CallsOf(PredicateOps)
    IN  [i \in 1..Len(ps) |-> PredicateText(ps[i])]

\* The entries of the order_by calls, in call order.
CalledOrderings ==
    LET os == CallsOf({"order_by"})
    IN  [i \in 1..Len(os) |->
            os[i].column \o <<" ">> \o (IF os[i].asc THEN <<"A", "S", "C">> ELSE <<"D", "E", "S", "C">>)]

\* The argument of the last limit() / offset() call, if any.
LastCalled(op) ==
    LET cs == CallsOf({op})
    IN  IF cs = <<>> THEN None ELSE Some(cs[Len(cs)].n)

\* The custom SQL of the last custom_sql() call, if any.
CalledCustomSql ==
    LET cs == CallsOf({"custom_sql"})
    IN  IF cs = <<>> THEN None ELSE Some(cs[Len(cs)].sql)

HasWhereKeyword(s) == contains(to_uppercase(s), <<"W", "H", "E", "R", "E">>)

AndJoined(ps) == join(ps, <<" ", "A", "N", "D", " ">>)

\* ORDER BY, LIMIT, OFFSET as the history says they should be rendered.
CalledTail ==
    (IF CalledOrderings # <<>>
     THEN <<" ", "O", "R", "D", "E", "R", " ", "B", "Y", " ">> \o join(CalledOrderings, <<",", " ">>) ELSE <<>>)
    \o (IF LastCalled("limit") # None
        THEN <<" ", "L", "I", "M", "I", "T", " ">> \o to_string(LastCalled("limit")[1]) ELSE <<>>)
    \o (IF LastCalled("offset") # None
        THEN <<" ", "O", "F", "F", "S", "E", "T", " ">> \o to_string(LastCalled("offset")[1]) ELSE <<>>)

\* sql holds the clause " WHERE p1 AND ... AND pn" once, it is the only
\* WHERE of the text, and no further predicate follows it.
HasWhereClause(sql, ps) ==
    /\ Occurrences(to_uppercase(sql), <<"W", "H", "E", "R", "E">>) = 1
    /\ LET clause == <<" ", "W", "H", "E", "R", "E", " ">> \o AndJoined(ps) \o CalledTail
       IN  EndsWith(sql, clause)
    /\ \A k \in 1..Len(ps) :
          Occurrences(sql, ps[k]) = Cardinality({j \in 1..Len(ps) : ps[j] = ps[k]})

----------------------------------------------------------------------------
(* C1 *)

\* C1 as stated: for every sequence of eq/ne/gt/lt/like calls, interleaved
\* with any other builder calls, the SQL of build_sql holds a WHERE clause
\* made of exactly the predicates of those calls, each once, in call order,
\* joined by " AND "; with no predicate call and no custom SQL the SQL holds
\* no WHERE.
C1_WhereClauseAlways ==
    \A t \in TableNames :
        LET sql == build_sql(w, t)
        IN  IF CalledPredicates = <<>>
            THEN w.custom_sql = None => ~HasWhereKeyword(sql)
            ELSE HasWhereClause(sql, CalledPredicates)

\* C1 amended: the WHERE clause of exactly the called predicates is rendered
\* when no custom SQL is set or the custom SQL's uppercased text does not
\* contain "WHERE"; when it does, the same predicates, in call order and
\* joined by " AND ", follow the custom SQL after " AND " and no WHERE
\* keyword is added.  With no predicate call and no custom SQL the SQL
\* holds no WHERE.
C1_WhereClause ==
    \A t \in TableNames :
        LET sql == build_sql(w, t)
            ps  == CalledPredicates
        IN  IF ps = <<>>
            THEN w.custom_sql = None => ~HasWhereKeyword(sql)
            ELSE IF CalledCustomSql = None \/ ~HasWhereKeyword(CalledCustomSql[1])
            THEN HasWhereClause(sql, ps)
            ELSE /\ sql = CalledCustomSql[1] \o <<" ", "A", "N", "D", " ">> \o AndJoined(ps)
                             \o CalledTail
                 /\ Occurrences(to_uppercase(sql), <<"W", "H", "E", "R", "E">>)
                      = Occurrences(to_uppercase(CalledCustomSql[1]), <<"W", "H", "E", "R", "E">>)

\* Two different predicates were added around a limit() call, no custom SQL.
C1_Witness ==
    /\ Len(calls) = 3
    /\ calls[1].op = "gt" /\ calls[2].op = "limit" /\ calls[3].op = "like"
    /\ \A t \in TableNames :
          contains(build_sql(w, t), <<" ", "W", "H", "E", "R", "E", " ", "i", "d", " ", ">", " ", "'", "7", "'", " ", "A", "N", "D", " ", "i", "d", " ", "L", "I", "K", "E", " ", "'", "%", "b", "o", "%", "'", " ", "L", "I", "M", "I", "T", " ">>)

----------------------------------------------------------------------------
(* C2 *)

\* C2: the text of build_count_sql holds no ORDER BY, LIMIT or OFFSET,
\* whatever order_by entries, limit and offset the builder holds and whether
\* custom SQL is set or not.
C2_CountHasNoTail ==
    \A t \in TableNames :
        LET c == to_uppercase(build_count_sql(w, t))
        IN  /\ ~contains(c, <<"O", "R", "D", "E", "R", " ", "B", "Y">>)
            /\ ~contains(c, <<"L", "I", "M", "I", "T">>)
            /\ ~contains(c, <<"O", "F", "F", "S", "E", "T">>)

\* order_by, limit and offset are all set, and build_sql does render them.
C2_Witness ==
    /\ w.order_by # <<>> /\ w.limit # None /\ w.offset # None
    /\ \A t \in TableNames :
          /\ contains(build_sql(w, t), <<" ", "O", "R", "D", "E", "R", " ", "B", "Y", " ">>)
          /\ contains(build_sql(w, t), <<" ", "L", "I", "M", "I", "T", " ">>)
          /\ contains(build_sql(w, t), <<" ", "O", "F", "F", "S", "E", "T", " ">>)

----------------------------------------------------------------------------
(* C6 *)

\* C6: on the custom-SQL path with at least one predicate, build_sql and
\* build_count_sql merge the predicates by the same rule (" WHERE " when the
\* uppercased custom SQL holds no "WHERE", " AND " otherwise), so with no
\* order_by, limit or offset the count SQL is
\* "SELECT COUNT(*) FROM (" + build_sql + ") as t".
C6_SameMerge ==
    \A t \in TableNames :
        (CalledCustomSql # None /\ CalledPredicates # <<>>) =>
            LET custom == CalledCustomSql[1]
                merged == custom
                          \o (IF ~HasWhereKeyword(custom)
                              THEN <<" ", "W", "H", "E", "R", "E", " ">> ELSE <<" ", "A", "N", "D", " ">>)
                          \o AndJoined(CalledPredicates)
            IN  /\ build_sql(w, t) = merged \o CalledTail
                /\ build_count_sql(w, t)
                     = <<"S", "E", "L", "E", "C", "T", " ", "C", "O", "U", "N", "T", "(", "*", ")", " ", "F", "R", "O", "M", " ", "(">> \o merged \o <<")", " ", "a", "s", " ", "t">>
                /\ CalledTail = <<>> =>
                     build_count_sql(w, t)
                       = <<"S", "E", "L", "E", "C", "T", " ", "C", "O", "U", "N", "T", "(", "*", ")", " ", "F", "R", "O", "M", " ", "(">> \o build_sql(w, t) \o <<")", " ", "a", "s", " ", "t">>

\* Custom SQL holding "Where" in mixed case, one predicate, nothing else.
C6_Witness ==
    /\ CalledCustomSql # None /\ CalledPredicates # <<>> /\ CalledTail = <<>>
    /\ contains(CalledCustomSql[1], <<"W", "h", "e", "r", "e">>)
    /\ \A t \in TableNames : contains(build_count_sql(w, t), <<"b", "=", "1", " ", "A", "N", "D", " ", "i", "d">>)

----------------------------------------------------------------------------
(* C7 *)

\* C7: on both paths build_sql ends with the clauses in the fixed order
\* WHERE, ORDER BY, LIMIT, OFFSET whatever the call order; ORDER BY lists the
\* order_by calls in call order joined by ", "; each of ORDER BY, LIMIT,
\* OFFSET is present exactly when set; LIMIT and OFFSET show the argument of
\* the last limit() / offset() call.
C7_ClauseOrder ==
    \A t \in TableNames :
        LET sql   == build_sql(w, t)
            where == IF CalledPredicates = <<>> THEN <<>>
                     ELSE (IF CalledCustomSql # None
                              /\ HasWhereKeyword(CalledCustomSql[1])
                           THEN <<" ", "A", "N", "D", " ">> ELSE <<" ", "W", "H", "E", "R", "E", " ">>)
                          \o AndJoined(CalledPredicates)
        IN  /\ EndsWith(sql, where \o CalledTail)
            /\ Occurrences(sql, <<" ", "O", "R", "D", "E", "R", " ", "B", "Y", " ">>)
                 = (IF CalledOrderings # <<>> THEN 1 ELSE 0)
            /\ Occurrences(sql, <<" ", "L", "I", "M", "I", "T", " ">>)
                 = (IF LastCalled("limit") # None THEN 1 ELSE 0)
            /\ Occurrences(sql, <<" ", "O", "F", "F", "S", "E", "T", " ">>)
                 = (IF LastCalled("offset") # None THEN 1 ELSE 0)

\* offset, limit and order_by were called in the reverse of the rendered order.
C7_Witness ==
    /\ Len(calls) = 3
    /\ calls[1].op = "offset" /\ calls[2].op = "limit" /\ calls[3].op = "order_by"
    /\ \A t \in TableNames :
          contains(build_sql(w, t), <<" ", "O", "R", "D", "E", "R", " ", "B", "Y", " ", "x", " ">>)

----------------------------------------------------------------------------
(* C8 *)

\* The join_conditions values that join calls can produce.
JoinLists ==
    {<<>>}
    \cup {inner_join(new, jt, oc).join_conditions :
             jt \in JoinTables, oc \in OnConditions}
    \cup {left_join(right_join(new, jt, oc), jt, oc).join_conditions :
             jt \in JoinTables, oc \in OnConditions}

\* The builders that differ from self in select_columns and join_conditions only.
Differing(self) ==
    {[self EXCEPT !.select_columns = cs, !.join_conditions = js] :
        cs \in {<<>>} \cup ColumnLists, js \in JoinLists}

\* C8: once custom_sql is set, build_sql and build_count_sql render the same
\* text for any two builders that differ only in select_columns and
\* join_conditions, and for any table_name argument.
C8_CustomIgnoresSelectJoinTable ==
    w.custom_sql # None =>
        \A t1 \in TableNames :
            LET sql == build_sql(w, t1)
                cnt == build_count_sql(w, t1)
            IN  \A other \in Differing(w) : \A t2 \in TableNames :
                    /\ build_sql(other, t2) = sql
                    /\ build_count_sql(other, t2) = cnt

\* Custom SQL is set on a builder that also holds select columns and a join.
C8_Witness ==
    /\ w.custom_sql # None
    /\ w.select_columns # <<>>
    /\ w.join_conditions # <<>>
    /\ \A t \in TableNames : build_sql(w, t) = w.custom_sql[1]

----------------------------------------------------------------------------
(* C3 *)

\* The page of an empty result set.
EmptyPage(a) ==
    [kind |-> "Page", records |-> <<>>, total |-> 0, page_no |-> a.page_no,
     page_size |-> a.page_size, pages |-> 0, has_next |-> FALSE]

\* total = 0 was decoded: page() is over, it returned the empty page, and the
\* client was called once, with the count query.
ReturnedEmptyPage ==
    /\ pc = "done"
    /\ result = Some(EmptyPage(args[1]))
    /\ Len(rb_calls) = 1
    /\ rb_calls[1].sql = build_count_sql(w, args[1].table_name)

\* C3 as stated: when page() decodes total = 0 it returns a Page with empty
\* records, total 0, pages 0, has_next false and the given page_no and
\* page_size, after exactly one call to the client (the count query).
C3_EmptyPageAlways ==
    total = Some(0) => ReturnedEmptyPage

\* C3 amended: when page() decodes total = 0 and page_size > 0, it returns a
\* Page with empty records, total 0, pages 0, has_next false and the given
\* page_no and page_size, after exactly one call to the client (the count
\* query); the data query is never issued.
C3_EmptyPage ==
    (total = Some(0) /\ args[1].page_size > 0) => ReturnedEmptyPage

\* page(3, 10) on a builder holding a limit decoded total = 0 and returned.
C3_Witness ==
    /\ total = Some(0)
    /\ pc = "done"
    /\ args[1].page_no = 3 /\ args[1].page_size = 10
    /\ w.limit # None
    /\ result[1].kind = "Page"
    /\ Len(rb_calls) = 1

----------------------------------------------------------------------------
(* C4 *)

\* C4: when page() decodes total > 0, with page_no >= 1 and page_size > 0,
\* the data query it issues is build_sql of the builder with
\* limit = page_size and offset = (page_no - 1) * page_size, whatever limit
\* and offset the builder held before.
C4_DataQueryPaging ==
    (/\ Len(rb_calls) = 2
     /\ total[1] > 0
     /\ args[1].page_no >= 1
     /\ args[1].page_size > 0)
    => rb_calls[2].sql =
          build_sql([w EXCEPT
                        !.limit = Some(args[1].page_size),
                        !.offset = Some((args[1].page_no - 1) * args[1].page_size)],
                    args[1].table_name)

----------------------------------------------------------------------------
(* C5 *)

CeilDiv(a, b) == (a \div b) + (IF a % b = 0 THEN 0 ELSE 1)

\* C5: for every total >= 0, page_no, and page_size > 0 over the u64 range,
\* Page::new yields pages = ceiling(total / page_size) and
\* has_next = (page_no < pages), and stores records, total, page_no and
\* page_size unchanged.
C5_PageNew ==
    (pc = "done" /\ args[1].fn = "Page::new" /\ args[1].page_size > 0)
    => /\ result[1].kind = "Page"
       /\ result[1].pages = CeilDiv(args[1].total, args[1].page_size)
       /\ result[1].has_next = (args[1].page_no < result[1].pages)
       /\ result[1].records = args[1].records
       /\ result[1].total = args[1].total
       /\ result[1].page_no = args[1].page_no
       /\ result[1].page_size = args[1].page_size

----------------------------------------------------------------------------
(* C9 *)

\* C9: no step of page() changes the caller's builder, whether page() ends
\* with a Page, an error or a panic; when it is over, build_sql on the
\* caller's builder renders the limit and offset of the caller's own calls.
C9_PageLeavesBuilder ==
    /\ [][pc' # "idle" => w' = w]_vars
    /\ [](pc = "done" =>
            \A t \in PageTables : EndsWith(build_sql(w, t), CalledTail))

\* page(1, 10) returned a Page from a builder whose own limit is 5.
C9_Witness ==
    /\ pc = "done"
    /\ result[1].kind = "Page"
    /\ LastCalled("limit") = Some(5)
    /\ args[1].page_size = 10
    /\ Len(rb_calls) = 2
    /\ contains(rb_calls[2].sql, <<" ", "L", "I", "M", "I", "T", " ", "1", "0", " ", "O", "F", "F", "S", "E", "T", " ", "0">>)
    /\ \A t \in PageTables : EndsWith(build_sql(w, t), <<" ", "L", "I", "M", "I", "T", " ", "5">>)

----------------------------------------------------------------------------
(* C10 *)

Failed(call) == call.reply # None /\ ~call.reply[1].ok

\* C10: the count query is issued first and the data query only after the
\* count query succeeded, each once; a failed query is the last one and its
\* error is what page() returns; page() returns no error of its own.
C10_ErrorsPropagate ==
    /\ Len(rb_calls) <= 2
    /\ Len(rb_calls) >= 1 =>
          rb_calls[1].sql = build_count_sql(w, args[1].table_name)
    /\ Len(rb_calls) = 2 =>
          /\ rb_calls[1].reply # None /\ rb_calls[1].reply[1].ok
          /\ rb_calls[2].sql = build_sql(wrapper[1], args[1].table_name)
          /\ rb_calls[2].sql # rb_calls[1].sql
    /\ \A i \in 1..Len(rb_calls) :
          Failed(rb_calls[i]) =>
              /\ i = Len(rb_calls)
              /\ pc = "done"
              /\ result = Some(Err(rb_calls[i].reply[1].error))
    /\ (pc = "done" /\ result[1].kind = "Err") =>
          Failed(rb_calls[Len(rb_calls)])

\* The count query succeeded, the data query failed with a decode error.
C10_Witness ==
    /\ pc = "done"
    /\ Len(rb_calls) = 2
    /\ rb_calls[2].reply = Some([ok |-> FALSE, error |-> "decode"])
    /\ result = Some(Err("decode"))

=============================================================================
